---- MODULE Spec2Model ----
(***************************************************************************)
(* LinkedInDecisionMakerExtractor: the request executor (_make_request),   *)
(* the pagination walker (get_all_company_employees), the title classifier *)
(* (filter_decision_makers) and the orchestrator (extract_decision_makers) *)
(* as one state machine.  Strings that the code inspects character by      *)
(* character (titles, keywords) are sequences of one-character strings.    *)
(***************************************************************************)
EXTENDS Integers, Sequences, FiniteSets, TLC

VARIABLES
    api_key,         \* self.api_key
    headers,         \* self.headers
    retry_attempts,  \* self.retry_attempts
    retry_delay,     \* self.retry_delay
    entry,           \* the public method the client called ("none" before the call)
    stack,           \* the active calls, outermost first
    ret,             \* how the callee that finished last ended (return value or raised error)
    req,             \* the frame of _make_request and what it did (calls, sleeps, log lines)
    walk,            \* the frame of get_all_company_employees
    fetch_log,       \* the params of every get_company_employees call, in call order
    pages,           \* the list each get_company_employees call of the walk returned
    throttle,        \* the durations of the walker's time.sleep calls, in call order
    ext,             \* the frame of extract_decision_makers and the calls it made
    arg,             \* the roster handed to filter_decision_makers by the client
    twin,            \* the frame of a second _make_request call, run beside req
    cli              \* the frame of a main function (cli.py or the library's) and its exit

instVars == <<api_key, headers, retry_attempts, retry_delay>>
walkVars == <<walk, fetch_log, pages, throttle>>
vars == <<api_key, headers, retry_attempts, retry_delay, entry, stack, ret, req,
          walk, fetch_log, pages, throttle, ext, arg, twin, cli>>

----------------------------------------------------------------------------
(* Bounds of the model *)

\* the retry ceilings tried are 0..MaxCeiling
MaxCeiling == 3
\* the walker is followed for at most MaxPages page fetches
MaxPages == 2
\* the rosters handed directly to the classifier have at most MaxRoster records
MaxRoster == 3

(* Program constants *)

DefaultRetryAttempts == 3
DefaultRetryDelay == 2
PageSize == 100
InterPageDelay == 1
RateLimited == 429

----------------------------------------------------------------------------
(* Python values *)

Str(s) == [t |-> "str", v |-> s]
NoneValue == [t |-> "NoneType", v |-> <<>>]

Return(v) == [kind |-> "return", value |-> v]
Raise(e) == [kind |-> "raise", value |-> e]
NoResult == [kind |-> "none", value |-> <<>>]

\* dict.get(key, default)
Get(d, key, default) == IF key \in DOMAIN d THEN d[key] ELSE default

Exc(type, status) == [type |-> type, status |-> status]
HTTPError(status) == Exc("HTTPError", status)
ConnectionError == Exc("ConnectionError", 0)
ValueError == Exc("ValueError", 0)
RuntimeError == Exc("RuntimeError", 0)
AttributeError == Exc("AttributeError", 0)

Top(s) == IF Len(s) = 0 THEN "client" ELSE s[Len(s)]
Pop(s) == SubSeq(s, 1, Len(s) - 1)

----------------------------------------------------------------------------
(* str.lower and the substring test *)

ToLower ==
    ("A" :> "a") @@ ("B" :> "b") @@ ("C" :> "c") @@ ("D" :> "d") @@ ("E" :> "e") @@
    ("F" :> "f") @@ ("G" :> "g") @@ ("H" :> "h") @@ ("I" :> "i") @@ ("J" :> "j") @@
    ("K" :> "k") @@ ("L" :> "l") @@ ("M" :> "m") @@ ("N" :> "n") @@ ("O" :> "o") @@
    ("P" :> "p") @@ ("Q" :> "q") @@ ("R" :> "r") @@ ("S" :> "s") @@ ("T" :> "t") @@
    ("U" :> "u") @@ ("V" :> "v") @@ ("W" :> "w") @@ ("X" :> "x") @@ ("Y" :> "y") @@
    ("Z" :> "z")

lower(s) == [i \in 1..Len(s) |-> IF s[i] \in DOMAIN ToLower THEN ToLower[s[i]] ELSE s[i]]

\* needle in hay
contains(hay, needle) ==
    \E i \in 0..(Len(hay) - Len(needle)) :
        \A j \in 1..Len(needle) : hay[i + j] = needle[j]

----------------------------------------------------------------------------
(* filter_decision_makers *)

decision_maker_titles == <<
    <<"C", "E", "O">>,
    <<"C", "h", "i", "e", "f">>,
    <<"P", "r", "e", "s", "i", "d", "e", "n", "t">>,
    <<"D", "i", "r", "e", "c", "t", "o", "r">>,
    <<"V", "P">>,
    <<"V", "i", "c", "e", " ", "P", "r", "e", "s", "i", "d", "e", "n", "t">>,
    <<"H", "e", "a", "d", " ", "o", "f">>,
    <<"M", "a", "n", "a", "g", "e", "r">>,
    <<"F", "o", "u", "n", "d", "e", "r">>,
    <<"O", "w", "n", "e", "r">>,
    <<"P", "a", "r", "t", "n", "e", "r">>,
    <<"E", "x", "e", "c", "u", "t", "i", "v", "e">> >>

\* employee.get("title", "")
title_of(employee) == Get(employee, "title", Str(<<>>))

\* The inner loop from keyword k on: how many times the employee is appended.
\* The break ends the loop at the first keyword found in the title.
RECURSIVE appends_no_break(_, _)
appends_no_break(title, k) ==
    IF k > Len(decision_maker_titles) THEN 0
    ELSE IF contains(title, lower(decision_maker_titles[k]))
         THEN 1 + appends_no_break(title, k + 1)
         ELSE appends_no_break(title, k + 1)

RECURSIVE appends(_, _)
appends(title, k) ==
    IF k > Len(decision_maker_titles) THEN 0
    ELSE IF contains(title, lower(decision_maker_titles[k]))
         THEN 1
         ELSE appends(title, k + 1)

\* title = employee.get("title", "").lower(), then the inner loop
matches_case_sensitive(employee) == appends(title_of(employee).v, 1) > 0

matches(employee) == appends(lower(title_of(employee).v), 1) > 0

\* Python raises AttributeError at the first title that is not a str (None.lower()).
has_bad_title(employees) ==
    \E i \in 1..Len(employees) : title_of(employees[i]).t /= "str"

\* The outer loop without the break of the inner one: one append per keyword found.
RECURSIVE loop_no_break(_, _, _)
loop_no_break(employees, i, decision_makers) ==
    IF i > Len(employees) THEN decision_makers
    ELSE LET employee == employees[i]
             n == appends_no_break(lower(title_of(employee).v), 1)
         IN  loop_no_break(employees, i + 1,
                 decision_makers \o [j \in 1..n |-> employee])

filter_no_break(employees) ==
    IF has_bad_title(employees) THEN Raise(AttributeError)
    ELSE Return(loop_no_break(employees, 1, <<>>))

\* A missing title field counted as a match.
filter_missing_title_matches(employees) ==
    IF has_bad_title(employees) THEN Raise(AttributeError)
    ELSE Return(SelectSeq(employees,
                    LAMBDA e : "title" \notin DOMAIN e \/ matches(e)))

\* The outer loop: every employee whose inner loop appends it, in roster order.
filter_decision_makers(employees) ==
    IF has_bad_title(employees) THEN Raise(AttributeError)
    ELSE Return(SelectSeq(employees, matches))

----------------------------------------------------------------------------
(* The upstream API: what one transport call can answer *)

GET == <<"G", "E", "T">>
POST == <<"P", "O", "S", "T">>
Methods == {GET, <<"g", "e", "t">>, POST, <<"D", "E", "L", "E", "T", "E">>}

ToUpper == [c \in {ToLower[u] : u \in DOMAIN ToLower} |->
                CHOOSE u \in DOMAIN ToLower : ToLower[u] = c]

upper(s) == [i \in 1..Len(s) |-> IF s[i] \in DOMAIN ToUpper THEN ToUpper[s[i]] ELSE s[i]]

base_url == "https://api.linkedin.com/v2"
CompanyUrl == "https://www.linkedin.com/company/test-company/"
CompanyId == Str(<<"1", "2", "3">>)

Ok(body) == [kind |-> "ok", body |-> body, exc |-> Exc("none", 0)]
Fail(exc) == [kind |-> "fail", body |-> <<>>, exc |-> exc]

\* raise_for_status raising for 429 or another 4xx/5xx status, or requests.get raising
Failures == {Fail(HTTPError(RateLimited)), Fail(HTTPError(500)), Fail(ConnectionError)}

\* the titles of the tests' sample_employees
SampleTitles == <<
    <<"C", "E", "O">>,
    <<"C", "T", "O">>,
    <<"S", "o", "f", "t", "w", "a", "r", "e", " ", "E", "n", "g", "i", "n", "e", "e", "r">>,
    <<"D", "i", "r", "e", "c", "t", "o", "r", " ", "o", "f", " ", "M", "a", "r", "k", "e", "t", "i", "n", "g">>,
    <<"S", "a", "l", "e", "s", " ", "R", "e", "p", "r", "e", "s", "e", "n", "t", "a", "t", "i", "v", "e">> >>

\* The k-th person of the upstream: the sample titles in turn, then one record
\* with no title field.
person(k) ==
    LET c == ((k - 1) % (Len(SampleTitles) + 1)) + 1
    IN  IF c > Len(SampleTitles) THEN [id |-> k]
        ELSE [id |-> k, title |-> Str(SampleTitles[c])]

sample_employees == [i \in 1..Len(SampleTitles) |-> person(i)]

PageKinds == {"empty", "one", "sample", "full", "over", "nokey", "nulltitle"}

page_len(kind) ==
    CASE kind = "one" -> 1
      [] kind = "sample" -> Len(SampleTitles)
      [] kind = "full" -> PageSize
      [] kind = "over" -> PageSize + 1
      [] OTHER -> 0

\* the body the upstream serves for page p
page_body(p, kind) ==
    LET first == (p - 1) * PageSize
    IN  CASE kind = "nokey" -> [message |-> "ok"]
          [] kind = "nulltitle" -> [results |-> <<[id |-> first + 1, title |-> NoneValue]>>]
          [] OTHER -> [results |-> [i \in 1..page_len(kind) |-> person(first + i)]]

CompanyBodies == {[id |-> CompanyId, name |-> "Test Company"],
                  [name |-> "Test Company"],
                  [id |-> Str(<<>>), name |-> "Test Company"]}

Bodies(fr) ==
    CASE fr.endpoint = "company" -> CompanyBodies
      [] fr.endpoint = "company_employee" ->
            {page_body(fr.params.page, k) : k \in PageKinds}
      [] OTHER -> {[data |-> "success"]}

Transport(fr) == Failures \cup {Ok(b) : b \in Bodies(fr)}

----------------------------------------------------------------------------
(* _make_request *)

LogLine(level, text, n) == [level |-> level, text |-> text, n |-> n]

new_request(endpoint, params, method) ==
    [endpoint |-> endpoint, params |-> params, method |-> method,
     attempt |-> 0, calls |-> <<>>, sleeps |-> <<>>, log |-> <<>>,
     outcomes |-> <<>>, status |-> "running", result |-> NoResult]

IdleRequest ==
    [endpoint |-> "", params |-> NoneValue, method |-> GET,
     attempt |-> 0, calls |-> <<>>, sleeps |-> <<>>, log |-> <<>>,
     outcomes |-> <<>>, status |-> "idle", result |-> NoResult]

finished(fr, result) ==
    [fr EXCEPT !.status = IF result.kind = "return" THEN "returned" ELSE "raised",
               !.result = result]

\* delay = self.retry_delay * (2 ** attempt)
backoff_linear(attempt) == retry_delay * (attempt + 1)

backoff(attempt) == retry_delay * (2 ^ attempt)

\* if attempt > 0: log, sleep
before_attempt(fr) ==
    IF fr.attempt > 0
    THEN [fr EXCEPT !.sleeps = Append(@, backoff(fr.attempt)),
                    !.log = Append(@, LogLine("INFO", "Retrying in", backoff(fr.attempt)))]
    ELSE fr

\* the warning of the except clause that catches exc
warning(exc) ==
    IF exc.type = "HTTPError"
    THEN IF exc.status = RateLimited
         THEN LogLine("WARNING", "Rate limit hit (429)", exc.status)
         ELSE LogLine("WARNING", "HTTP error", exc.status)
    ELSE LogLine("WARNING", "Request exception", 0)

\* if attempt == self.retry_attempts - 1: logger.error(...); raise
after_failure_swallow(fr, exc) ==
    LET warned == [fr EXCEPT !.log = Append(@, warning(exc))]
    IN  [warned EXCEPT !.attempt = @ + 1]

after_failure_429_free(fr, exc) ==
    LET warned == [fr EXCEPT !.log = Append(@, warning(exc))]
    IN  IF exc.status = RateLimited THEN warned
        ELSE IF fr.attempt = retry_attempts - 1
        THEN finished([warned EXCEPT !.log =
                          Append(@, LogLine("ERROR", "Failed after", retry_attempts))],
                      Raise(exc))
        ELSE [warned EXCEPT !.attempt = @ + 1]

after_failure_error_each(fr, exc) ==
    LET warned == [fr EXCEPT !.log = Append(Append(@, warning(exc)),
                                            LogLine("ERROR", "Failed after", retry_attempts))]
    IN  IF fr.attempt = retry_attempts - 1
        THEN finished(warned, Raise(exc))
        ELSE [warned EXCEPT !.attempt = @ + 1]

after_failure_off_by_one(fr, exc) ==
    LET warned == [fr EXCEPT !.log = Append(@, warning(exc))]
    IN  IF fr.attempt = retry_attempts
        THEN finished([warned EXCEPT !.log =
                          Append(@, LogLine("ERROR", "Failed after", retry_attempts))],
                      Raise(exc))
        ELSE [warned EXCEPT !.attempt = @ + 1]

after_failure(fr, exc) ==
    LET warned == [fr EXCEPT !.log = Append(@, warning(exc))]
    IN  IF fr.attempt = retry_attempts - 1
        THEN finished([warned EXCEPT !.log =
                          Append(@, LogLine("ERROR", "Failed after", retry_attempts))],
                      Raise(exc))
        ELSE [warned EXCEPT !.attempt = @ + 1]

\* return response.json()
after_success_retry(fr, body) == [fr EXCEPT !.attempt = @ + 1]

after_success(fr, body) == finished(fr, Return(body))

iteration_retries_unsupported(fr, o) ==
    LET slept == before_attempt(fr)
        verb == upper(fr.method)
    IN  IF verb \notin {GET, POST}
        THEN after_failure(slept, ValueError)
        ELSE LET called == [slept EXCEPT
                     !.calls = Append(@, [fn |-> IF verb = GET THEN "requests.get"
                                                 ELSE "requests.post",
                                          url |-> <<base_url, fr.endpoint>>,
                                          auth |-> headers.Authorization]),
                     !.outcomes = Append(@, o)]
             IN  IF o.kind = "ok" THEN after_success(called, o.body)
                 ELSE after_failure(called, o.exc)

\* One iteration of the for loop, the transport answering with outcome o.
iteration(fr, o) ==
    LET slept == before_attempt(fr)
        verb == upper(fr.method)
    IN  IF verb \notin {GET, POST}
        THEN finished(slept, Raise(ValueError))
        ELSE LET called == [slept EXCEPT
                     !.calls = Append(@, [fn |-> IF verb = GET THEN "requests.get"
                                                 ELSE "requests.post",
                                          url |-> <<base_url, fr.endpoint>>,
                                          auth |-> headers.Authorization]),
                     !.outcomes = Append(@, o)]
             IN  IF o.kind = "ok" THEN after_success(called, o.body)
                 ELSE after_failure(called, o.exc)

----------------------------------------------------------------------------
(* __init__ and the client's configuration of the instance *)

ApiKey == "test_api_key"
Delays == {1, 2, 3}

IdleWalk == [company_id |-> NoneValue, page |-> 1, page_size |-> PageSize,
             all_employees |-> <<>>, status |-> "idle", result |-> NoResult]
IdleExtract == [company_url |-> "", pc |-> "idle", trace |-> <<>>]

\* no main function has been started: the client uses the class directly
IdleMain == [module |-> "", format |-> "", pc |-> "idle", decision_makers |-> <<>>,
             saved |-> <<>>, exited |-> FALSE, status |-> 0]

Init ==
    /\ api_key = ApiKey
    /\ headers = [Authorization |-> <<"Bearer", ApiKey>>,
                  ContentType |-> "application/json"]
    /\ retry_attempts = DefaultRetryAttempts
    /\ retry_delay = DefaultRetryDelay
    /\ entry = "none"
    /\ stack = <<>>
    /\ ret = NoResult
    /\ req = IdleRequest
    /\ walk = IdleWalk
    /\ fetch_log = <<>>
    /\ pages = <<>>
    /\ throttle = <<>>
    /\ ext = IdleExtract
    /\ arg = <<>>
    /\ twin = IdleRequest
    /\ cli = IdleMain

\* extractor.retry_attempts = n; extractor.retry_delay = d, before the call
Configure ==
    /\ entry = "none"
    /\ \E n \in 0..MaxCeiling, d \in Delays :
          /\ retry_attempts' = n
          /\ retry_delay' = d
    /\ UNCHANGED <<api_key, headers, entry, stack, ret, req, walkVars, ext, arg, twin, cli>>

----------------------------------------------------------------------------
(* _make_request: the client's call and the loop *)

CallMakeRequest ==
    /\ entry = "none"
    /\ \E method \in Methods :
          req' = new_request("test_endpoint", NoneValue, method)
    /\ entry' = "_make_request"
    /\ stack' = <<"_make_request">>
    /\ ret' = NoResult
    /\ UNCHANGED <<instVars, walkVars, ext, arg, twin, cli>>

\* one iteration that keeps the doubled delay on the instance
MakeRequestAttemptStoresDelay ==
    /\ Top(stack) = "_make_request"
    /\ req.status = "running"
    /\ req.attempt < retry_attempts
    /\ \E o \in Transport(req) :
          LET fr == iteration(req, o)
          IN  /\ req' = fr
              /\ IF fr.status = "running"
                 THEN UNCHANGED <<stack, ret>>
                 ELSE stack' = Pop(stack) /\ ret' = fr.result
    /\ retry_delay' = IF req.attempt > 0 THEN retry_delay * 2 ELSE retry_delay
    /\ UNCHANGED <<api_key, headers, retry_attempts, entry, walkVars, ext, arg, twin, cli>>

\* for attempt in range(self.retry_attempts): one iteration
MakeRequestAttempt ==
    /\ Top(stack) = "_make_request"
    /\ req.status = "running"
    /\ req.attempt < retry_attempts
    /\ \E o \in Transport(req) :
          LET fr == iteration(req, o)
          IN  /\ req' = fr
              /\ IF fr.status = "running"
                 THEN UNCHANGED <<stack, ret>>
                 ELSE stack' = Pop(stack) /\ ret' = fr.result
    /\ UNCHANGED <<instVars, entry, walkVars, ext, arg, twin, cli>>

\* the loop ended without a return or a raise: raise RuntimeError(...)
MakeRequestFallback ==
    /\ Top(stack) = "_make_request"
    /\ req.status = "running"
    /\ ~(req.attempt < retry_attempts)
    /\ req' = finished(req, Raise(RuntimeError))
    /\ stack' = Pop(stack)
    /\ ret' = Raise(RuntimeError)
    /\ UNCHANGED <<instVars, entry, walkVars, ext, arg, twin, cli>>

----------------------------------------------------------------------------
(* get_company_data *)

company_request(company_url) == new_request("company", [link |-> company_url], GET)

CallGetCompanyData ==
    /\ entry = "none"
    /\ entry' = "get_company_data"
    /\ stack' = <<"get_company_data", "_make_request">>
    /\ req' = company_request(CompanyUrl)
    /\ ret' = NoResult
    /\ UNCHANGED <<instVars, walkVars, ext, arg, twin, cli>>

\* return self._make_request(...), or log the error and raise it again
GetCompanyDataResume ==
    /\ Top(stack) = "get_company_data"
    /\ ret.kind /= "none"
    /\ stack' = Pop(stack)
    /\ UNCHANGED <<instVars, entry, ret, req, walkVars, ext, arg, twin, cli>>

----------------------------------------------------------------------------
(* get_company_employees *)

employee_params(company_id, page, page_size) ==
    [companyId |-> company_id, page |-> page, pageSize |-> page_size]

employee_request(company_id, page, page_size) ==
    new_request("company_employee", employee_params(company_id, page, page_size), GET)

CallGetCompanyEmployees ==
    /\ entry = "none"
    /\ entry' = "get_company_employees"
    /\ \E page \in 1..MaxPages :
          req' = employee_request(CompanyId, page, PageSize)
    /\ stack' = <<"get_company_employees", "_make_request">>
    /\ ret' = NoResult
    /\ UNCHANGED <<instVars, walkVars, ext, arg, twin, cli>>

accessor_propagates(r) ==
    IF r.kind = "return" THEN Return(Get(r.value, "results", <<>>)) ELSE r

accessor_catches_http_only(r) ==
    IF r.kind = "return" THEN Return(Get(r.value, "results", <<>>))
    ELSE IF r.value.type = "HTTPError" THEN Return(<<>>) ELSE r

\* what the accessor returns for the way _make_request ended
accessor_result(r) ==
    IF r.kind = "return" THEN Return(Get(r.value, "results", <<>>)) ELSE Return(<<>>)

GetCompanyEmployeesResume ==
    /\ Top(stack) = "get_company_employees"
    /\ ret.kind /= "none"
    /\ ret' = accessor_result(ret)
    /\ stack' = Pop(stack)
    /\ pages' = IF Len(stack) > 1 /\ stack[Len(stack) - 1] = "get_all_company_employees"
                THEN Append(pages, accessor_result(ret).value) ELSE pages
    /\ UNCHANGED <<instVars, entry, req, walk, fetch_log, throttle, ext, arg, twin, cli>>

----------------------------------------------------------------------------
(* get_all_company_employees *)

new_walk(company_id) ==
    [company_id |-> company_id, page |-> 1, page_size |-> PageSize,
     all_employees |-> <<>>, status |-> "running", result |-> NoResult]

CallGetAll ==
    /\ entry = "none"
    /\ entry' = "get_all_company_employees"
    /\ walk' = new_walk(CompanyId)
    /\ stack' = <<"get_all_company_employees">>
    /\ ret' = NoResult
    /\ UNCHANGED <<instVars, req, fetch_log, pages, throttle, ext, arg, twin, cli>>

\* employees = self.get_company_employees(company_id, page, page_size)
WalkFetch ==
    /\ Top(stack) = "get_all_company_employees"
    /\ ret.kind = "none"
    /\ walk.page <= MaxPages
    /\ fetch_log' = Append(fetch_log,
                           employee_params(walk.company_id, walk.page, walk.page_size))
    /\ req' = employee_request(walk.company_id, walk.page, walk.page_size)
    /\ stack' = stack \o <<"get_company_employees", "_make_request">>
    /\ UNCHANGED <<instVars, entry, ret, walk, pages, throttle, ext, arg, twin, cli>>

\* The rest of the loop body for the page just fetched: [walk, result, slept].
walk_ignore_empty(w, employees) ==
    LET all == w.all_employees \o employees
    IN  IF Len(employees) < w.page_size /\ employees /= <<>>
        THEN [walk |-> [w EXCEPT !.all_employees = all], result |-> Return(all),
              slept |-> <<>>]
        ELSE [walk |-> [w EXCEPT !.all_employees = all, !.page = @ + 1],
              result |-> NoResult, slept |-> <<InterPageDelay>>]

walk_until_empty(w, employees) ==
    LET all == w.all_employees \o employees
    IN  IF employees = <<>>
        THEN [walk |-> w, result |-> Return(w.all_employees), slept |-> <<>>]
        ELSE [walk |-> [w EXCEPT !.all_employees = all, !.page = @ + 1],
              result |-> NoResult, slept |-> <<InterPageDelay>>]

walk_sleep_always(w, employees) ==
    LET all == w.all_employees \o employees
    IN  IF employees = <<>>
        THEN [walk |-> w, result |-> Return(w.all_employees), slept |-> <<>>]
        ELSE IF Len(employees) < w.page_size
        THEN [walk |-> [w EXCEPT !.all_employees = all], result |-> Return(all),
              slept |-> <<InterPageDelay>>]
        ELSE [walk |-> [w EXCEPT !.all_employees = all, !.page = @ + 1],
              result |-> NoResult, slept |-> <<InterPageDelay>>]

walk_drop_on_empty(w, employees) ==
    LET all == w.all_employees \o employees
    IN  IF employees = <<>>
        THEN [walk |-> [w EXCEPT !.all_employees = <<>>], result |-> Return(<<>>),
              slept |-> <<>>]
        ELSE IF Len(employees) < w.page_size
        THEN [walk |-> [w EXCEPT !.all_employees = all], result |-> Return(all),
              slept |-> <<>>]
        ELSE [walk |-> [w EXCEPT !.all_employees = all, !.page = @ + 1],
              result |-> NoResult, slept |-> <<InterPageDelay>>]

walk_prepend(w, employees) ==
    LET all == employees \o w.all_employees
    IN  IF employees = <<>>
        THEN [walk |-> w, result |-> Return(w.all_employees), slept |-> <<>>]
        ELSE IF Len(employees) < w.page_size
        THEN [walk |-> [w EXCEPT !.all_employees = all], result |-> Return(all),
              slept |-> <<>>]
        ELSE [walk |-> [w EXCEPT !.all_employees = all, !.page = @ + 1],
              result |-> NoResult, slept |-> <<InterPageDelay>>]

walk_stop_at_full(w, employees) ==
    LET all == w.all_employees \o employees
    IN  IF employees = <<>>
        THEN [walk |-> w, result |-> Return(w.all_employees), slept |-> <<>>]
        ELSE IF Len(employees) <= w.page_size
        THEN [walk |-> [w EXCEPT !.all_employees = all], result |-> Return(all),
              slept |-> <<>>]
        ELSE [walk |-> [w EXCEPT !.all_employees = all, !.page = @ + 1],
              result |-> NoResult, slept |-> <<InterPageDelay>>]

walk_first_page_only(w, employees) ==
    LET all == w.all_employees \o employees
    IN  IF employees = <<>>
        THEN [walk |-> w, result |-> Return(w.all_employees), slept |-> <<>>]
        ELSE [walk |-> [w EXCEPT !.all_employees = all], result |-> Return(all),
              slept |-> <<>>]

walk_same_page(w, employees) ==
    LET all == w.all_employees \o employees
    IN  IF employees = <<>>
        THEN [walk |-> w, result |-> Return(w.all_employees), slept |-> <<>>]
        ELSE IF Len(employees) < w.page_size
        THEN [walk |-> [w EXCEPT !.all_employees = all], result |-> Return(all),
              slept |-> <<>>]
        ELSE [walk |-> [w EXCEPT !.all_employees = all],
              result |-> NoResult, slept |-> <<InterPageDelay>>]

walk_step(w, employees) ==
    LET all == w.all_employees \o employees
    IN  IF employees = <<>>
        THEN [walk |-> w, result |-> Return(w.all_employees), slept |-> <<>>]
        ELSE IF Len(employees) < w.page_size
        THEN [walk |-> [w EXCEPT !.all_employees = all], result |-> Return(all),
              slept |-> <<>>]
        ELSE [walk |-> [w EXCEPT !.all_employees = all, !.page = @ + 1],
              result |-> NoResult, slept |-> <<InterPageDelay>>]

\* An error raised by the accessor would leave the walk: the loop has no try.
WalkStep ==
    /\ Top(stack) = "get_all_company_employees"
    /\ ret.kind /= "none"
    /\ IF ret.kind = "raise"
       THEN /\ stack' = Pop(stack)
            /\ walk' = [walk EXCEPT !.status = "raised", !.result = ret]
            /\ UNCHANGED <<throttle, ret>>
       ELSE LET s == walk_step(walk, ret.value)
            IN  /\ walk' = IF s.result.kind = "none" THEN s.walk
                           ELSE [s.walk EXCEPT !.status = "returned",
                                               !.result = s.result]
                /\ throttle' = throttle \o s.slept
                /\ ret' = s.result
                /\ stack' = IF s.result.kind = "none" THEN stack ELSE Pop(stack)
    /\ UNCHANGED <<instVars, entry, req, fetch_log, pages, ext, arg, twin, cli>>

----------------------------------------------------------------------------
(* extract_decision_makers *)

Called(fn, a) == [fn |-> fn, arg |-> a]

falsy_none_only(v) == v.t = "NoneType"

\* if not company_id
falsy(v) == v.t = "NoneType" \/ (v.t = "str" /\ v.v = <<>>)

CallExtract ==
    /\ entry = "none"
    /\ entry' = "extract_decision_makers"
    /\ ext' = [company_url |-> CompanyUrl, pc |-> "company",
               trace |-> <<Called("get_company_data", CompanyUrl)>>]
    /\ stack' = <<"extract_decision_makers", "get_company_data", "_make_request">>
    /\ req' = company_request(CompanyUrl)
    /\ ret' = NoResult
    /\ UNCHANGED <<instVars, walkVars, arg, twin, cli>>

\* company_id = company_data.get("id"), then the walk or the early return;
\* an error raised by get_company_data is caught: return []
ExtractAfterCompany ==
    /\ Top(stack) = "extract_decision_makers"
    /\ ext.pc = "company"
    /\ ret.kind /= "none"
    /\ LET company_id == IF ret.kind = "return" THEN Get(ret.value, "id", NoneValue)
                         ELSE NoneValue
       IN  IF ret.kind = "raise" \/ falsy(company_id)
           THEN /\ ret' = Return(<<>>)
                /\ stack' = Pop(stack)
                /\ ext' = [ext EXCEPT !.pc = "done"]
                /\ UNCHANGED walk
           ELSE /\ ret' = NoResult
                /\ stack' = Append(stack, "get_all_company_employees")
                /\ walk' = new_walk(company_id)
                /\ ext' = [ext EXCEPT !.pc = "walk",
                              !.trace = Append(@, Called("get_all_company_employees",
                                                         company_id))]
    /\ UNCHANGED <<instVars, entry, req, fetch_log, pages, throttle, arg, twin, cli>>

extract_result_propagates(r) ==
    IF r.kind = "raise" THEN r ELSE filter_decision_makers(r.value)

extract_result_first_only(r) ==
    IF r.kind = "raise" THEN Return(<<>>)
    ELSE LET f == filter_decision_makers(r.value)
         IN  IF f.kind = "raise" THEN Return(<<>>)
             ELSE IF f.value = <<>> THEN f ELSE Return(<<f.value[1]>>)

\* what extract_decision_makers returns for the way the walk ended
extract_result(r) ==
    IF r.kind = "raise" THEN Return(<<>>)
    ELSE LET f == filter_decision_makers(r.value)
         IN  IF f.kind = "raise" THEN Return(<<>>) ELSE f

\* decision_makers = self.filter_decision_makers(employees); return decision_makers
ExtractAfterWalk ==
    /\ Top(stack) = "extract_decision_makers"
    /\ ext.pc = "walk"
    /\ ret.kind /= "none"
    /\ ret' = extract_result(ret)
    /\ stack' = Pop(stack)
    /\ ext' = [ext EXCEPT !.pc = "done",
                  !.trace = IF ret.kind = "return"
                            THEN Append(@, Called("filter_decision_makers", ret.value))
                            ELSE @]
    /\ UNCHANGED <<instVars, entry, req, walkVars, arg, twin, cli>>

----------------------------------------------------------------------------
(* filter_decision_makers called by the client *)

\* the titles the client's rosters draw from; "absent" is a record with no title field
ClientTitles == {
    Str(<<"C", "E", "O">>),
    Str(<<"C", "T", "O">>),
    Str(<<"S", "o", "f", "t", "w", "a", "r", "e", " ", "E", "n", "g", "i", "n", "e", "e", "r">>),
    Str(<<"C", "h", "i", "e", "f", " ", "T", "e", "c", "h", "n", "o", "l", "o", "g", "y", " ", "O", "f", "f", "i", "c", "e", "r">>),
    Str(<<"V", "i", "c", "e", " ", "P", "r", "e", "s", "i", "d", "e", "n", "t">>),
    Str(<<"C", "E", "O", " ", "a", "n", "d", " ", "F", "o", "u", "n", "d", "e", "r">>),
    Str(<<"v", "p", " ", "s", "a", "l", "e", "s">>),
    Str(<<"I", "n", "t", "e", "r", "n">>),
    Str(<<>>),
    NoneValue }

ClientRecords(i) ==
    {[id |-> i]} \cup {[id |-> i, title |-> t] : t \in ClientTitles}

\* every roster of at most MaxRoster records, the i-th with id i, and the tests' roster
RECURSIVE RostersOfLen(_)
RostersOfLen(n) ==
    IF n = 0 THEN {<<>>}
    ELSE {Append(r, e) : r \in RostersOfLen(n - 1), e \in ClientRecords(n)}

ClientRosters ==
    {sample_employees} \cup UNION {RostersOfLen(n) : n \in 0..MaxRoster}

CallFilter ==
    /\ entry = "none"
    /\ entry' = "filter_decision_makers"
    /\ \E employees \in ClientRosters : arg' = employees
    /\ stack' = <<"filter_decision_makers">>
    /\ ret' = NoResult
    /\ UNCHANGED <<instVars, req, walkVars, ext, twin, cli>>

FilterReturn ==
    /\ Top(stack) = "filter_decision_makers"
    /\ ret' = filter_decision_makers(arg)
    /\ stack' = Pop(stack)
    /\ UNCHANGED <<instVars, entry, req, walkVars, ext, arg, twin, cli>>

----------------------------------------------------------------------------
(* main of cli.py and main of linkedin_decision_maker_extractor.py: the      *)
(* program run from the command line.  Each builds one extractor with the   *)
(* default retry settings and calls extract_decision_makers once.           *)

CliModule == "cli"
LibraryModule == "linkedin_decision_maker_extractor"

\* --format of cli.py; the library's main always writes both files
Formats(module) == IF module = CliModule THEN {"csv", "json", "both"} ELSE {"both"}

new_main(module, format) ==
    [module |-> module, format |-> format, pc |-> "extract", decision_makers |-> <<>>,
     saved |-> <<>>, exited |-> FALSE, status |-> 0]

\* the process ends: sys.exit(status), the end of main (0) or an uncaught error (1)
exit(m, status) == [m EXCEPT !.pc = "done", !.exited = TRUE, !.status = status]

\* extractor.save_to_csv / save_to_json: the call, and the error it raises
\* again when the sink cannot be written
save(m, fn, ok) ==
    LET called == [m EXCEPT !.saved = Append(@, Called(fn, m.decision_makers))]
    IN  IF ok THEN called ELSE exit(called, 1)

\* the two save steps, the second skipped when the process already ended
save_outputs(m, csv_ok, json_ok) ==
    LET csv == IF m.format \in {"csv", "both"} THEN save(m, "save_to_csv", csv_ok) ELSE m
        json == IF csv.exited THEN csv
                ELSE IF csv.format \in {"json", "both"}
                THEN save(csv, "save_to_json", json_ok) ELSE csv
    IN  IF json.exited THEN json ELSE exit(json, 0)

main_save_always(m, r, csv_ok, json_ok) ==
    IF r.kind = "raise" THEN exit(m, 1)
    ELSE save_outputs([m EXCEPT !.decision_makers = r.value], csv_ok, json_ok)

\* main from the return of extract_decision_makers to the end of the process
main_after_extract(m, r, csv_ok, json_ok) ==
    IF r.kind = "raise" THEN exit(m, 1)
    ELSE LET got == [m EXCEPT !.decision_makers = r.value]
         IN  IF r.value = <<>> THEN exit(got, 0)
             ELSE save_outputs(got, csv_ok, json_ok)

\* main with an API key: extractor = LinkedInDecisionMakerExtractor(api_key);
\* decision_makers = extractor.extract_decision_makers(company)
CallMain ==
    /\ entry = "none"
    /\ entry' = "main"
    /\ \E module \in {CliModule, LibraryModule} :
          \E format \in Formats(module) : cli' = new_main(module, format)
    /\ ext' = [company_url |-> CompanyUrl, pc |-> "company",
               trace |-> <<Called("get_company_data", CompanyUrl)>>]
    /\ stack' = <<"main", "extract_decision_makers", "get_company_data", "_make_request">>
    /\ req' = company_request(CompanyUrl)
    /\ ret' = NoResult
    /\ UNCHANGED <<instVars, walkVars, arg, twin>>

\* main without an API key: cli.py prints and calls sys.exit(1), the
\* library's main prints and returns; no extractor is built
MainNoApiKey ==
    /\ entry = "none"
    /\ entry' = "main"
    /\ \E module \in {CliModule, LibraryModule} :
          \E format \in Formats(module) :
              cli' = exit(new_main(module, format),
                          IF module = CliModule THEN 1 ELSE 0)
    /\ UNCHANGED <<instVars, stack, ret, req, walkVars, ext, arg, twin>>

MainAfterExtract ==
    /\ Top(stack) = "main"
    /\ ret.kind /= "none"
    /\ \E csv_ok, json_ok \in BOOLEAN :
          cli' = main_after_extract(cli, ret, csv_ok, json_ok)
    /\ stack' = Pop(stack)
    /\ UNCHANGED <<instVars, entry, ret, req, walkVars, ext, arg, twin>>

----------------------------------------------------------------------------
(* Two _make_request calls side by side: the same call made twice, the      *)
(* transport succeeding at the same attempts with the same bodies and       *)
(* failing at the same attempts, each time with any kind of failure.        *)

same_but_failure_kind(o1, o2) ==
    \/ o1.kind = "fail" /\ o2.kind = "fail"
    \/ o1.kind = "ok" /\ o1 = o2

CallTwin ==
    /\ entry = "none"
    /\ entry' = "_make_request"
    /\ \E method \in Methods :
          /\ req' = new_request("test_endpoint", NoneValue, method)
          /\ twin' = new_request("test_endpoint", NoneValue, method)
    /\ stack' = <<"_make_request">>
    /\ ret' = NoResult
    /\ UNCHANGED <<instVars, walkVars, ext, arg, cli>>

TwinAttempt ==
    /\ Top(stack) = "_make_request"
    /\ req.status = "running" /\ req.attempt < retry_attempts
    /\ twin.status = "running" /\ twin.attempt < retry_attempts
    /\ \E o1 \in Transport(req), o2 \in Transport(twin) :
          /\ same_but_failure_kind(o1, o2)
          /\ req' = iteration(req, o1)
          /\ twin' = iteration(twin, o2)
    /\ ret' = req'.result
    /\ stack' = IF req'.status = "running" \/ twin'.status = "running"
                THEN stack ELSE Pop(stack)
    /\ UNCHANGED <<instVars, entry, walkVars, ext, arg, cli>>

TwinFallback ==
    /\ Top(stack) = "_make_request"
    /\ req.status = "running" /\ ~(req.attempt < retry_attempts)
    /\ twin.status = "running" /\ ~(twin.attempt < retry_attempts)
    /\ req' = finished(req, Raise(RuntimeError))
    /\ twin' = finished(twin, Raise(RuntimeError))
    /\ ret' = Raise(RuntimeError)
    /\ stack' = Pop(stack)
    /\ UNCHANGED <<instVars, entry, walkVars, ext, arg, cli>>

----------------------------------------------------------------------------
(* Specifications *)

Done == entry /= "none" /\ stack = <<>>

\* the whole client: every public fetch method and the orchestrator
Next ==
    \/ Configure
    \/ CallMakeRequest
    \/ MakeRequestAttempt
    \/ MakeRequestFallback
    \/ CallGetCompanyData
    \/ GetCompanyDataResume
    \/ CallGetCompanyEmployees
    \/ GetCompanyEmployeesResume
    \/ CallGetAll
    \/ WalkFetch
    \/ WalkStep
    \/ CallExtract
    \/ ExtractAfterCompany
    \/ ExtractAfterWalk

Spec == Init /\ [][Next]_vars

\* the pagination walker called on its own
NextWalk ==
    \/ Configure
    \/ CallGetAll
    \/ WalkFetch
    \/ MakeRequestAttempt
    \/ MakeRequestFallback
    \/ GetCompanyEmployeesResume
    \/ WalkStep

SpecWalk == Init /\ [][NextWalk]_vars

\* the steps the walk and its callees take once the client has called it
WalkRuns ==
    \/ WalkFetch
    \/ MakeRequestAttempt
    \/ MakeRequestFallback
    \/ GetCompanyEmployeesResume
    \/ WalkStep

\* the request executor called on its own
NextRequest ==
    \/ Configure
    \/ CallMakeRequest
    \/ MakeRequestAttempt
    \/ MakeRequestFallback

SpecRequest == Init /\ [][NextRequest]_vars

\* the program run from the command line; the ceiling stays at its default
\* of 3, so the loop of _make_request always ends by a return or a raise
NextMain ==
    \/ CallMain
    \/ MainNoApiKey
    \/ MakeRequestAttempt
    \/ GetCompanyDataResume
    \/ GetCompanyEmployeesResume
    \/ WalkFetch
    \/ WalkStep
    \/ ExtractAfterCompany
    \/ ExtractAfterWalk
    \/ MainAfterExtract

SpecMain == Init /\ [][NextMain]_vars

\* the classifier called on its own
NextFilter ==
    \/ CallFilter
    \/ FilterReturn

SpecFilter == Init /\ [][NextFilter]_vars

\* every method of the class, called by the client on one instance
NextInstance ==
    \/ Next
    \/ NextFilter

SpecInstance == Init /\ [][NextInstance]_vars

\* two calls of the request executor that differ in the kinds of failure only
NextTwin ==
    \/ Configure
    \/ CallTwin
    \/ TwinAttempt
    \/ TwinFallback

SpecTwin == Init /\ [][NextTwin]_vars

----------------------------------------------------------------------------
(* Properties of _make_request *)

Supported(fr) == upper(fr.method) \in {GET, POST}

AllFailed(fr) == \A i \in 1..Len(fr.outcomes) : fr.outcomes[i].kind = "fail"

Increasing(seq) == \A i, j \in 1..Len(seq) : i < j => seq[i] < seq[j]

\* C1: with a ceiling n >= 1 and a transport that fails at every attempt, the
\* call makes exactly n transport calls and n - 1 sleeps and then raises the
\* error of the last attempt to its caller; it never returns a value, and it
\* is not still running once n calls have failed.
C1_ExhaustedRaises ==
    (req.status /= "idle" /\ retry_attempts >= 1 /\ Supported(req) /\ AllFailed(req)) =>
        /\ req.status /= "returned"
        /\ req.status = "running" => Len(req.calls) < retry_attempts
        /\ req.status = "raised" =>
              /\ Len(req.calls) = retry_attempts
              /\ Len(req.sleeps) = retry_attempts - 1
              /\ req.result = Raise(req.outcomes[Len(req.outcomes)].exc)
              /\ ret = req.result
              /\ stack = <<>>

C1_Witness ==
    /\ req.status = "raised"
    /\ retry_attempts = 3
    /\ Len(req.calls) = 3
    /\ Len(req.sleeps) = 2
    /\ req.outcomes = <<Fail(HTTPError(500)), Fail(ConnectionError), Fail(HTTPError(500))>>
    /\ ret = Raise(HTTPError(500))

\* C2: no sleep precedes the first transport call; the sleep before call k
\* (k >= 2) lasts retry_delay * 2^(k-1); with retry_delay 2 the sleeps are 4
\* and then 8; the sleeps of one call are strictly increasing.
C2_BackoffDurations ==
    /\ Len(req.calls) <= 1 => req.sleeps = <<>>
    /\ Len(req.calls) >= 2 => Len(req.sleeps) = Len(req.calls) - 1
    /\ \A k \in 2..(Len(req.sleeps) + 1) : req.sleeps[k - 1] = retry_delay * 2 ^ (k - 1)
    /\ retry_delay = 2 =>
          \E n \in 0..Len(req.sleeps) :
              req.sleeps = SubSeq(<<4, 8, 16, 32, 64, 128>>, 1, n)
    /\ Increasing(req.sleeps)

C2_Witness ==
    /\ retry_delay = 2
    /\ retry_attempts = 3
    /\ Len(req.calls) = 3
    /\ req.sleeps = <<4, 8>>

\* C3: when the transport fails at calls 1..k-1 and succeeds at call k, the
\* call returns the body of call k to its caller after exactly k transport
\* calls and k - 1 sleeps of increasing duration, and call k is the last one.
C3_SuccessAfterFailures ==
    \A k \in 1..Len(req.outcomes) :
        req.outcomes[k].kind = "ok" =>
            /\ k = Len(req.outcomes)
            /\ k <= retry_attempts
            /\ \A i \in 1..(k - 1) : req.outcomes[i].kind = "fail"
            /\ req.status = "returned"
            /\ req.result = Return(req.outcomes[k].body)
            /\ ret = req.result
            /\ stack = <<>>
            /\ Len(req.calls) = k
            /\ Len(req.sleeps) = k - 1
            /\ Increasing(req.sleeps)

C3_Witness ==
    /\ req.status = "returned"
    /\ retry_attempts = 3
    /\ Len(req.outcomes) = 3
    /\ req.outcomes[1].kind = "fail" /\ req.outcomes[2].kind = "fail"
    /\ Len(req.sleeps) = 2
    /\ ret = Return([data |-> "success"])

\* C4: two calls that differ only in the kind of failure of each attempt make
\* the same number of transport calls, sleep the same durations and end the
\* same way; their logs differ in the text of the warnings only.
C4_FailureKindIrrelevant ==
    twin.status /= "idle" =>
        /\ Len(req.calls) = Len(twin.calls)
        /\ req.sleeps = twin.sleeps
        /\ req.attempt = twin.attempt
        /\ req.status = twin.status
        /\ req.result.kind = twin.result.kind
        /\ req.status = "returned" => req.result = twin.result
        /\ Len(req.log) = Len(twin.log)
        /\ \A i \in 1..Len(req.log) :
              /\ req.log[i].level = twin.log[i].level
              /\ req.log[i].level /= "WARNING" => req.log[i] = twin.log[i]

C4_Witness ==
    /\ req.status = "raised" /\ twin.status = "raised"
    /\ retry_attempts = 3
    /\ req.outcomes = [i \in 1..3 |-> Fail(HTTPError(RateLimited))]
    /\ twin.outcomes = <<Fail(ConnectionError), Fail(HTTPError(500)), Fail(ConnectionError)>>
    /\ req.sleeps = <<4, 8>> /\ twin.sleeps = <<4, 8>>

----------------------------------------------------------------------------
(* Properties of filter_decision_makers *)

\* the vocabulary as the specification lists it, lower-cased
Vocabulary == {
    <<"c", "e", "o">>,
    <<"c", "h", "i", "e", "f">>,
    <<"p", "r", "e", "s", "i", "d", "e", "n", "t">>,
    <<"d", "i", "r", "e", "c", "t", "o", "r">>,
    <<"v", "p">>,
    <<"v", "i", "c", "e", " ", "p", "r", "e", "s", "i", "d", "e", "n", "t">>,
    <<"h", "e", "a", "d", " ", "o", "f">>,
    <<"m", "a", "n", "a", "g", "e", "r">>,
    <<"f", "o", "u", "n", "d", "e", "r">>,
    <<"o", "w", "n", "e", "r">>,
    <<"p", "a", "r", "t", "n", "e", "r">>,
    <<"e", "x", "e", "c", "u", "t", "i", "v", "e">> }

\* the title of a record as text; no title field is the empty title
TitleText(e) == IF "title" \in DOMAIN e THEN e.title.v ELSE <<>>

HasKeyword(e) == \E w \in Vocabulary : contains(lower(TitleText(e)), w)

Included(e, out) == \E j \in 1..Len(out) : out[j] = e

HasTitle(e, text) == "title" \in DOMAIN e /\ e.title = Str(text)

\* a roster of person records: every title that is present is text
PersonRecords(employees) ==
    \A i \in 1..Len(employees) :
        "title" \in DOMAIN employees[i] => employees[i].title.t = "str"

FilterReturned == entry = "filter_decision_makers" /\ stack = <<>> /\ ret.kind = "return"

\* C5: a record of the roster is in the output if and only if its lower-cased
\* title contains one of the 12 lower-cased keywords; "Chief Technology
\* Officer" is in, "Software Engineer" and the empty title are not.
C5_IncludedIffKeyword ==
    FilterReturned =>
        \A i \in 1..Len(arg) :
            /\ Included(arg[i], ret.value) <=> HasKeyword(arg[i])
            /\ HasTitle(arg[i], <<"C", "h", "i", "e", "f", " ", "T", "e", "c", "h", "n", "o",
                                  "l", "o", "g", "y", " ", "O", "f", "f", "i", "c", "e", "r">>)
                  => Included(arg[i], ret.value)
            /\ HasTitle(arg[i], SampleTitles[3]) => ~Included(arg[i], ret.value)
            /\ HasTitle(arg[i], <<>>) => ~Included(arg[i], ret.value)

C5_Witness ==
    /\ FilterReturned
    /\ Len(arg) = 3
    /\ HasTitle(arg[1], SampleTitles[3])
    /\ HasTitle(arg[2], <<"C", "h", "i", "e", "f", " ", "T", "e", "c", "h", "n", "o",
                          "l", "o", "g", "y", " ", "O", "f", "f", "i", "c", "e", "r">>)
    /\ HasTitle(arg[3], <<>>)
    /\ ret.value = <<arg[2]>>

\* C6: for the roster titled CEO, CTO, Software Engineer, Director of
\* Marketing, Sales Representative the output is the CEO, the CTO and the
\* Director of Marketing records, in that order.
C6_SampleRosterYieldsThree ==
    (FilterReturned /\ arg = sample_employees) =>
        ret.value = <<sample_employees[1], sample_employees[2], sample_employees[4]>>

\* b is a[from..] with some elements left out
RECURSIVE IsSubsequenceFrom(_, _, _, _)
IsSubsequenceFrom(b, j, a, i) ==
    IF j > Len(b) THEN TRUE
    ELSE IF i > Len(a) THEN FALSE
    ELSE IF b[j] = a[i] THEN IsSubsequenceFrom(b, j + 1, a, i + 1)
    ELSE IsSubsequenceFrom(b, j, a, i + 1)

\* C7: the output is a subsequence of the roster: the records kept are in
\* roster order, each position of the roster gives at most one element (also
\* when its title holds several keywords), and the output is no longer than
\* the roster.
C7_OutputIsSubsequence ==
    FilterReturned =>
        /\ IsSubsequenceFrom(ret.value, 1, arg, 1)
        /\ Len(ret.value) <= Len(arg)
        /\ \A i \in 1..Len(arg) :
              Cardinality({j \in 1..Len(ret.value) : ret.value[j] = arg[i]}) <= 1

C7_Witness ==
    /\ FilterReturned
    /\ Len(arg) = 3
    /\ HasTitle(arg[1], <<"V", "i", "c", "e", " ", "P", "r", "e", "s", "i", "d", "e", "n", "t">>)
    /\ HasTitle(arg[2], <<"I", "n", "t", "e", "r", "n">>)
    /\ HasTitle(arg[3], <<"C", "E", "O", " ", "a", "n", "d", " ", "F", "o", "u", "n", "d", "e", "r">>)
    /\ ret.value = <<arg[1], arg[3]>>

----------------------------------------------------------------------------
(* Properties of get_all_company_employees *)

RECURSIVE Concat(_)
Concat(lists) ==
    IF Len(lists) = 0 THEN <<>>
    ELSE Concat(SubSeq(lists, 1, Len(lists) - 1)) \o lists[Len(lists)]

\* the accessor has delivered a page that the walk has not looked at yet
PagePending ==
    /\ walk.status = "running"
    /\ Top(stack) = "get_all_company_employees"
    /\ ret.kind = "return"

\* pages 1..k-1 hold exactly page_size records, page k at least one and fewer
ShortPageAt(k) ==
    /\ \A i \in 1..(k - 1) : Len(pages[i]) = walk.page_size
    /\ Len(pages[k]) >= 1
    /\ Len(pages[k]) < walk.page_size

\* C9: when pages 1..k-1 are full and page k is short but not empty, the walk
\* fetches exactly k pages, page k being the last, and returns pages 1..k
\* joined in page order.
C9_ShortPageEndsWalk ==
    \A k \in 1..Len(pages) :
        ShortPageAt(k) =>
            /\ Len(pages) = k
            /\ Len(fetch_log) = k
            /\ walk.status = "returned" \/ PagePending
            /\ walk.status = "returned" =>
                  /\ walk.result = Return(Concat(pages))
                  /\ walk.all_employees = Concat(pages)

C9_Witness ==
    /\ walk.status = "returned"
    /\ Len(fetch_log) = 2
    /\ Len(pages) = 2
    /\ Len(pages[1]) = PageSize
    /\ Len(pages[2]) = 5
    /\ walk.result = Return(pages[1] \o pages[2])
    /\ Len(walk.result.value) = PageSize + 5

\* page k is the first empty list the accessor returned to the walk
FirstEmptyPageAt(k) ==
    /\ pages[k] = <<>>
    /\ \A i \in 1..(k - 1) : pages[i] /= <<>>

\* the last request answered with a body that has no "results" key
NoResultsKey ==
    /\ req.endpoint = "company_employee"
    /\ req.status = "returned"
    /\ "results" \notin DOMAIN req.result.value

\* C10: the first empty page ends the walk: no page is fetched after it and
\* the walk returns the records of the pages before it; a body with no
\* "results" key counts as an empty page; when page 1 is empty the walk makes
\* one fetch and returns the empty roster.
C10_EmptyPageEndsWalk ==
    /\ \A k \in 1..Len(pages) :
          FirstEmptyPageAt(k) =>
              /\ Len(pages) = k
              /\ Len(fetch_log) = k
              /\ walk.status = "returned" \/ PagePending
              /\ walk.status = "returned" =>
                    /\ walk.result = Return(Concat(SubSeq(pages, 1, k - 1)))
                    /\ k = 1 => walk.result = Return(<<>>) /\ Len(fetch_log) = 1
    /\ (NoResultsKey /\ Len(pages) >= 1 /\ Len(pages) = Len(fetch_log)) =>
          pages[Len(pages)] = <<>>
    /\ (NoResultsKey /\ entry = "get_company_employees" /\ stack = <<>>) =>
          ret = Return(<<>>)

C10_Witness ==
    /\ walk.status = "returned"
    /\ NoResultsKey
    /\ Len(fetch_log) = 2
    /\ Len(pages) = 2
    /\ Len(pages[1]) = PageSize
    /\ pages[2] = <<>>
    /\ walk.result = Return(pages[1])

\* the walk stands between the sleep after a page and the fetch of the next
BetweenPages ==
    /\ walk.status = "running"
    /\ Top(stack) = "get_all_company_employees"
    /\ ret.kind = "none"

\* C11: a walk that fetches m pages sleeps m-1 times, one time unit each:
\* there is no sleep before the fetch of page 1, one sleep between the fetch
\* of page i and the fetch of page i+1 and none after the last page, whatever
\* the request executor slept for backoff during the fetches.
C11_InterPageSleeps ==
    walk.status \in {"running", "returned"} =>
        /\ \A i \in 1..Len(throttle) : throttle[i] = InterPageDelay
        /\ walk.status = "returned" => Len(throttle) = Len(fetch_log) - 1
        /\ walk.status = "running" =>
              /\ Len(throttle) = walk.page - 1
              /\ Len(fetch_log) = IF BetweenPages THEN walk.page - 1 ELSE walk.page

C11_Witness ==
    /\ walk.status = "returned"
    /\ Len(fetch_log) = 2
    /\ throttle = <<InterPageDelay>>
    /\ Len(req.sleeps) >= 1
    /\ req.params.page = 2

----------------------------------------------------------------------------
(* Properties of get_company_employees *)

\* the page request ended with an error and get_company_employees has returned
PageFetchFailed ==
    /\ req.endpoint = "company_employee"
    /\ req.status = "raised"
    /\ Top(stack) \notin {"_make_request", "get_company_employees"}

\* C12 as stated: an error that _make_request raises for a page request
\* leaves get_company_employees as that error.
C12_AccessorPropagates ==
    (PageFetchFailed /\ entry = "get_company_employees") => ret = req.result

\* C12, amended: get_company_employees catches every error that _make_request
\* raises for a page request and returns the empty list in its place, so its
\* caller never receives the error: a direct call returns [], and the walk is
\* handed an empty page and does not end with an error.
C12_AccessorCatches ==
    /\ (PageFetchFailed /\ entry = "get_company_employees") => ret = Return(<<>>)
    /\ (PageFetchFailed /\ Len(pages) >= 1) => pages[Len(pages)] = <<>>
    /\ Top(stack) = "get_all_company_employees" => ret.kind /= "raise"
    /\ walk.status /= "raised"

C12_Witness ==
    /\ PageFetchFailed
    /\ entry = "get_company_employees"
    /\ stack = <<>>
    /\ req.result = Raise(HTTPError(500))
    /\ Len(req.calls) = DefaultRetryAttempts
    /\ ret = Return(<<>>)

----------------------------------------------------------------------------
(* Properties of a walk with a failing page *)

\* the records of the pages before the last one fetched, in page order
EarlierPages == Concat(SubSeq(pages, 1, Len(pages) - 1))

\* the fetch of the last page of the walk failed at every attempt
LastPageFailed ==
    /\ entry \in {"get_all_company_employees", "extract_decision_makers"}
    /\ PageFetchFailed
    /\ Len(pages) >= 1
    /\ AllFailed(req)
    /\ Len(req.calls) = retry_attempts

\* C13: when the fetch of page N fails after all retries the walk does not
\* raise; it returns the records of pages 1..N-1, and extract_decision_makers
\* returns the records among them whose title holds a keyword, in roster
\* order (the records being person records).
C13_FailedPageKeepsRoster ==
    LastPageFailed =>
        /\ walk.status \in {"running", "returned"}
        /\ walk.all_employees = EarlierPages
        /\ walk.status = "running" => PagePending
        /\ walk.status = "returned" => walk.result = Return(EarlierPages)
        /\ (entry = "extract_decision_makers" /\ stack = <<>>
                /\ PersonRecords(EarlierPages)) =>
              ret = Return(SelectSeq(EarlierPages, HasKeyword))

C13_Witness ==
    /\ LastPageFailed
    /\ entry = "extract_decision_makers"
    /\ stack = <<>>
    /\ Len(pages) = 2
    /\ Len(pages[1]) = PageSize
    /\ req.result = Raise(ConnectionError)
    /\ Len(req.calls) >= 2
    /\ walk.result = Return(pages[1])
    /\ ret.kind = "return"
    /\ Len(ret.value) = 34
    /\ ret.value[1] = person(1)

----------------------------------------------------------------------------
(* Properties of extract_decision_makers *)

ExtractDone == entry = "extract_decision_makers" /\ stack = <<>>

\* get_company_data raised: its request ended with an error
ResolutionRaised == req.endpoint = "company" /\ req.status = "raised"

\* the walk returned a roster on which the classifier raises: a record's
\* title is present and is not text
ClassifierRaises == walk.status = "returned" /\ ~PersonRecords(walk.result.value)

\* C14: extract_decision_makers never ends with an error, and it returns the
\* empty list whenever get_company_data, the walk or the classifier raised.
C14_FailsSoft ==
    ExtractDone =>
        /\ ret.kind = "return"
        /\ ResolutionRaised => ret = Return(<<>>)
        /\ walk.status = "raised" => ret = Return(<<>>)
        /\ ClassifierRaises => ret = Return(<<>>)

C14_Witness ==
    /\ ExtractDone
    /\ ClassifierRaises
    /\ walk.result.value = <<[id |-> 1, title |-> NoneValue]>>
    /\ filter_decision_makers(walk.result.value) = Raise(AttributeError)
    /\ ret = Return(<<>>)

\* the company request was answered with a body whose "id" is absent or empty
NoIdentifier ==
    /\ entry = "extract_decision_makers"
    /\ req.endpoint = "company"
    /\ req.status = "returned"
    /\ \/ "id" \notin DOMAIN req.result.value
       \/ req.result.value.id = Str(<<>>)

\* C15: when the company response carries no identifier, extract_decision_makers
\* returns the empty list; the response that lacks the identifier is the only
\* answer asked for (get_company_data is called once and sends nothing after
\* it), no page is fetched and the classifier is not called.
C15_NoIdentifierEndsExtraction ==
    NoIdentifier =>
        /\ ext.trace = <<Called("get_company_data", CompanyUrl)>>
        /\ \A i \in 1..Len(req.outcomes) :
              req.outcomes[i].kind = "ok" <=> i = Len(req.outcomes)
        /\ Len(req.calls) = Len(req.outcomes)
        /\ fetch_log = <<>> /\ pages = <<>> /\ throttle = <<>>
        /\ walk = IdleWalk
        /\ stack = <<>> => ret = Return(<<>>)

C15_Witness ==
    /\ NoIdentifier
    /\ ExtractDone
    /\ req.result.value = [id |-> Str(<<>>), name |-> "Test Company"]
    /\ Len(req.calls) = 1
    /\ fetch_log = <<>>
    /\ ret = Return(<<>>)

\* the names of the calls extract_decision_makers has made so far
TraceNames == [i \in 1..Len(ext.trace) |-> ext.trace[i].fn]

StepOrder == <<"get_company_data", "get_all_company_employees", "filter_decision_makers">>

\* the company was resolved, the walk returned and the classifier does not raise
ExtractionSucceeded ==
    /\ ExtractDone
    /\ walk.status = "returned"
    /\ PersonRecords(walk.result.value)

\* C16: extract_decision_makers calls get_company_data, then
\* get_all_company_employees, then filter_decision_makers, in that order and
\* at most once each; on success it has called each of them once, with the
\* company reference, the resolved id and the roster the walk returned, and
\* it returns what the classifier returns for that roster.
C16_ResolveWalkClassify ==
    entry = "extract_decision_makers" =>
        /\ Len(ext.trace) <= 3
        /\ TraceNames = SubSeq(StepOrder, 1, Len(ext.trace))
        /\ req.endpoint = "company" => req.params = [link |-> CompanyUrl]
        /\ walk.status /= "idle" => Len(ext.trace) >= 2
        /\ ExtractionSucceeded =>
              /\ ext.trace = <<Called("get_company_data", CompanyUrl),
                               Called("get_all_company_employees", CompanyId),
                               Called("filter_decision_makers", walk.result.value)>>
              /\ walk.company_id = CompanyId
              /\ ret = filter_decision_makers(walk.result.value)

C16_Witness ==
    /\ ExtractionSucceeded
    /\ walk.result.value = sample_employees
    /\ Len(ext.trace) = 3
    /\ ret = Return(<<sample_employees[1], sample_employees[4]>>)

----------------------------------------------------------------------------
(* Properties of the log of _make_request *)

LogLevels(fr) == [i \in 1..Len(fr.log) |-> fr.log[i].level]

\* what the first k attempts of a call are to leave in the log: a retry
\* announcement before every attempt but the first, a warning after a failed
\* attempt, and an error entry after the warning of the last allowed attempt
RECURSIVE ExpectedLevels(_, _)
ExpectedLevels(fr, k) ==
    IF k = 0 THEN <<>>
    ELSE ExpectedLevels(fr, k - 1)
         \o (IF k > 1 THEN <<"INFO">> ELSE <<>>)
         \o (IF fr.outcomes[k].kind = "fail" THEN <<"WARNING">> ELSE <<>>)
         \o (IF fr.outcomes[k].kind = "fail" /\ k = retry_attempts
             THEN <<"ERROR">> ELSE <<>>)

ErrorEntries(fr) == {i \in 1..Len(fr.log) : fr.log[i].level = "ERROR"}

\* C17: every failed attempt of _make_request, the last one included, leaves
\* a warning in the log; the failure of the last allowed attempt leaves an
\* error entry after its warning, which is in the log when the error reaches
\* the caller; a failed attempt that is followed by another attempt leaves
\* no error entry.
C17_WarningsAndFinalError ==
    /\ LogLevels(req) = ExpectedLevels(req, Len(req.outcomes))
    /\ req.status = "running" => ErrorEntries(req) = {}
    /\ (req.status = "raised" /\ req.outcomes /= <<>>) =>
          /\ ErrorEntries(req) = {Len(req.log)}
          /\ req.log[Len(req.log) - 1].level = "WARNING"
          /\ req.log[Len(req.log)].n = retry_attempts

C17_Witness ==
    /\ req.status = "raised"
    /\ retry_attempts = 3
    /\ req.outcomes = <<Fail(HTTPError(500)), Fail(ConnectionError),
                        Fail(HTTPError(RateLimited))>>
    /\ LogLevels(req) = <<"WARNING", "INFO", "WARNING", "INFO", "WARNING", "ERROR">>
    /\ ret = Raise(HTTPError(RateLimited))

----------------------------------------------------------------------------
(* Properties of main *)

\* main has ended after extract_decision_makers returned the empty list
EndedWithNothing ==
    /\ entry = "main"
    /\ cli.exited
    /\ ret = Return(<<>>)

\* C18: when extract_decision_makers returns the empty list, because the
\* extraction failed or because no title matched, main calls neither
\* save_to_csv nor save_to_json and the process exits with status 0.
C18_NoResultNoOutput ==
    EndedWithNothing =>
        /\ cli.saved = <<>>
        /\ cli.status = 0

C18_Witness ==
    /\ EndedWithNothing
    /\ cli.module = CliModule
    /\ cli.format = "both"
    /\ ResolutionRaised
    /\ cli.decision_makers = <<>>
    /\ cli.saved = <<>>
    /\ cli.status = 0

----------------------------------------------------------------------------
(* Properties of the roster of a walk *)

IsPrefix(a, b) == Len(a) <= Len(b) /\ SubSeq(b, 1, Len(a)) = a

\* the pages the walk has looked at, joined in the order they arrived
PagesTaken == IF PagePending THEN EarlierPages ELSE Concat(pages)

\* every step leaves the roster collected so far at the front of the new one
RosterGrows == IsPrefix(walk.all_employees, walk'.all_employees)

\* C19: the roster of a walk only grows: every step keeps the roster it
\* found as a prefix of the roster it leaves, so no record is removed or
\* moved; the roster is the pages in the order they arrived, each page's
\* records in the order they arrived in it.
C19_RosterOnlyGrows ==
    /\ [](walk.status /= "idle" => walk.all_employees = PagesTaken)
    /\ [][RosterGrows]_vars

C19_Witness ==
    /\ walk.status = "returned"
    /\ Len(pages) = 2
    /\ Len(pages[1]) = PageSize
    /\ Len(pages[2]) = 1
    /\ walk.all_employees = pages[1] \o pages[2]
    /\ walk.all_employees[PageSize + 1] = person(PageSize + 1)

----------------------------------------------------------------------------
(* Properties of the instance *)

\* the step belongs to a method call: it is not the client setting the
\* retry fields before the call
MethodStep == entry' /= "none"

Credential == <<api_key, headers.Authorization, retry_attempts, retry_delay>>

\* C20: no step of _make_request, get_company_data, get_company_employees,
\* get_all_company_employees, filter_decision_makers or extract_decision_makers
\* changes api_key, the Authorization header, retry_attempts or retry_delay;
\* the key and the header stay the ones given at construction.
C20_CredentialReadOnly ==
    /\ [](api_key = ApiKey /\ headers.Authorization = <<"Bearer", ApiKey>>)
    /\ [][MethodStep => Credential' = Credential]_vars

C20_Witness ==
    /\ ExtractDone
    /\ Len(fetch_log) = 2
    /\ Len(req.calls) = 2
    /\ req.calls[2].auth = <<"Bearer", ApiKey>>
    /\ api_key = ApiKey
    /\ retry_attempts = 2
    /\ retry_delay = 3

----------------------------------------------------------------------------
(* Properties of the end of a walk *)

\* the request of the page being fetched has ended with an error
PageRequestFailed == req.endpoint = "company_employee" /\ req.status = "raised"

\* the last page handed to the walk is the empty list
LastPageEmpty == Len(pages) >= 1 /\ pages[Len(pages)] = <<>>

\* C21: once the fetch of page N has failed or has returned the empty list,
\* the walk asks for no further page: no step adds a page request or starts
\* another request, the page counter stays at N, and N is the last page
\* asked for although the upstream would serve page N+1.
C21_NoFetchAfterFailedOrEmptyPage ==
    /\ [](\A k \in 1..Len(pages) : pages[k] = <<>> =>
              /\ k = Len(pages)
              /\ Len(fetch_log) = k
              /\ walk.page = k)
    /\ [](PageRequestFailed => req.params.page = Len(fetch_log))
    /\ [][(PageRequestFailed \/ LastPageEmpty) =>
              (fetch_log' = fetch_log /\ req' = req /\ walk'.page = walk.page)]_vars

C21_Witness ==
    /\ walk.status = "returned"
    /\ PageRequestFailed
    /\ LastPageEmpty
    /\ Len(fetch_log) = 1
    /\ Len(fetch_log) < MaxPages
    /\ walk.result = Return(<<>>)

----------------------------------------------------------------------------
(* A walk over an upstream that holds n records *)

\* the roster of an upstream that holds n records, in upstream order
Upstream(n) == [i \in 1..n |-> person(i)]

\* how many of the n records page k holds when pages hold size records
SliceLen(n, k, size) ==
    LET before == (k - 1) * size
    IN  IF n <= before THEN 0 ELSE IF n - before >= size THEN size ELSE n - before

\* page k of that upstream
Slice(n, k, size) == [i \in 1..SliceLen(n, k, size) |-> person((k - 1) * size + i)]

\* the records the walk was handed, counted
Delivered == Len(Concat(pages))

\* the walk has returned, no page request failed, and every page it was
\* handed is the page an upstream of n records serves at that index
ServedConsistently(n) ==
    /\ walk.status = "returned"
    /\ ~PageRequestFailed
    /\ \A k \in 1..Len(pages) : pages[k] = Slice(n, k, walk.page_size)

\* C22: when the upstream holds N records, serves them in pages of page_size
\* and no page request fails, the walk returns the N records in upstream
\* order, each once, after floor(N / page_size) + 1 page fetches; when N is a
\* positive multiple of page_size the last of these fetches returns the
\* empty page.
C22_ConsistentUpstream ==
    ServedConsistently(Delivered) =>
        /\ walk.result = Return(Upstream(Delivered))
        /\ Len(fetch_log) = (Delivered \div walk.page_size) + 1
        /\ (Delivered > 0 /\ Delivered % walk.page_size = 0) =>
              /\ pages[Len(pages)] = <<>>
              /\ Len(pages) = (Delivered \div walk.page_size) + 1

C22_Witness ==
    /\ ServedConsistently(PageSize)
    /\ Delivered = PageSize
    /\ Len(fetch_log) = 2
    /\ pages[2] = <<>>
    /\ req.result = Return([results |-> <<>>])
    /\ walk.result = Return(Upstream(PageSize))

----------------------------------------------------------------------------
(* Termination of a walk *)

\* the last page handed to the walk is empty (a failed fetch included) or
\* shorter than page_size
LastPageEndsWalk ==
    /\ Len(pages) >= 1
    /\ Len(pages[Len(pages)]) < walk.page_size

\* every page the walk has taken held page_size records or more
OnlyFullPagesTaken ==
    \A k \in 1..(walk.page - 1) : Len(pages[k]) >= walk.page_size

\* the walk has taken as many pages as the model follows it for
AtPageBound == walk.page > MaxPages

\* the steps a call still has before it, counted generously: for every page
\* not yet taken one fetch with all its attempts, and what is left of the
\* page being fetched
PageBudget == MaxCeiling + 5

StepsOfPage ==
    IF Top(stack) = "_make_request" THEN 3 + (retry_attempts - req.attempt)
    ELSE IF Top(stack) = "get_company_employees" THEN 2
    ELSE IF ret.kind /= "none" THEN 1
    ELSE PageBudget - 1

StepsLeft ==
    IF walk.status = "running"
    THEN (MaxPages + 1 - walk.page) * PageBudget + StepsOfPage
    ELSE 0

\* C23: the walk returns only after a page that is empty, failed or shorter
\* than page_size; as long as every page holds page_size records or more it
\* goes on to the next page, whatever the page index (it is followed here up
\* to MaxPages pages and still asks for the next one); and a walk that has
\* started always reaches its return unless every page up to the bound held
\* page_size records or more: a running walk always has a next step, and
\* every step brings it nearer to its return.
C23_TerminatesIffPageEndsWalk ==
    /\ [](walk.status = "returned" => LastPageEndsWalk)
    /\ [](walk.status = "running" => OnlyFullPagesTaken)
    /\ [](AtPageBound => walk.status = "running" /\ BetweenPages)
    /\ [](PagePending /\ ~LastPageEndsWalk => walk.status = "running")
    /\ []((walk.status = "running" /\ ~AtPageBound) => ENABLED WalkRuns)
    /\ [](StepsLeft >= 0)
    /\ [][walk.status = "running" => StepsLeft' < StepsLeft]_vars

C23_Witness ==
    /\ AtPageBound
    /\ BetweenPages
    /\ Len(fetch_log) = MaxPages
    /\ \A k \in 1..MaxPages : Len(pages[k]) = PageSize
    /\ Len(walk.all_employees) = MaxPages * PageSize

----------------------------------------------------------------------------
(* The way a walk ends *)

WalkDone == entry = "get_all_company_employees" /\ stack = <<>>

\* some attempt of the page request that ended last has failed
SomeAttemptFailed ==
    /\ req.endpoint = "company_employee"
    /\ \E i \in 1..Len(req.outcomes) : req.outcomes[i].kind = "fail"

\* C24: whatever the transport does (errors, HTTP error statuses, successes,
\* in any mix), get_all_company_employees is never handed an error by
\* get_company_employees and never ends with one: when it is done it has
\* returned a list to its caller.
C24_WalkNeverRaises ==
    /\ walk.status \in {"idle", "running", "returned"}
    /\ Top(stack) = "get_all_company_employees" => ret.kind \in {"none", "return"}
    /\ walk.status = "returned" => walk.result.kind = "return"
    /\ WalkDone =>
          /\ walk.status = "returned"
          /\ ret = walk.result
          /\ ret.value = walk.all_employees

C24_Witness ==
    /\ WalkDone
    /\ SomeAttemptFailed
    /\ req.result = Raise(ConnectionError)
    /\ Len(fetch_log) = 2
    /\ ret = Return(pages[1])
    /\ Len(ret.value) = PageSize + 1

----------------------------------------------------------------------------
(* The page requests of a walk *)

\* the page request in flight, or ended last, is the last one the walk made
RequestOfWalk == Len(fetch_log) >= 1 /\ req.endpoint = "company_employee"

\* C25: the k-th page request of a walk asks for page k, so the indices are
\* 1, 2, ..., m with no gap and no repeat; every request carries the company
\* id the walk was called with and page size 100, and these are the params
\* that reach _make_request.
C25_PageIndicesInOrder ==
    /\ \A k \in 1..Len(fetch_log) :
          /\ fetch_log[k].page = k
          /\ fetch_log[k].companyId = walk.company_id
          /\ fetch_log[k].pageSize = PageSize
    /\ fetch_log /= <<>> => walk.company_id = CompanyId
    /\ RequestOfWalk => req.params = fetch_log[Len(fetch_log)]

C25_Witness ==
    /\ walk.status = "returned"
    /\ fetch_log = <<[companyId |-> CompanyId, page |-> 1, pageSize |-> 100],
                     [companyId |-> CompanyId, page |-> 2, pageSize |-> 100]>>
    /\ Len(req.calls) = 2
    /\ req.params.page = 2

----------------------------------------------------------------------------
(* _make_request with an unsupported verb, and the raise after the loop *)

\* the call was made with a verb that is neither GET nor POST in any case
UnsupportedCall == req.status /= "idle" /\ ~Supported(req)

\* the call made no transport call, slept for no backoff and wrote no log line
NothingDone ==
    /\ req.calls = <<>>
    /\ req.outcomes = <<>>
    /\ req.sleeps = <<>>
    /\ req.log = <<>>
    /\ req.attempt = 0

FallbackRaised == req.status = "raised" /\ req.result = Raise(RuntimeError)

\* C27: with a ceiling of 1 or more the raise after the loop is never
\* reached: the loop is left by a return or by a raise inside it, which for
\* a supported verb is the raise of the last allowed attempt; the raise after
\* the loop is reached exactly when the ceiling is 0, and then the call has
\* made no attempt.
C27_FallbackOnlyWithoutAttempts ==
    /\ FallbackRaised => retry_attempts = 0 /\ NothingDone
    /\ (retry_attempts = 0 /\ req.status \notin {"idle", "running"}) => FallbackRaised
    /\ retry_attempts >= 1 =>
          /\ req.status = "running" => req.attempt < retry_attempts
          /\ (req.status = "raised" /\ Supported(req)) =>
                /\ req.attempt = retry_attempts - 1
                /\ Len(req.calls) = retry_attempts
                /\ req.result = Raise(req.outcomes[Len(req.outcomes)].exc)

C27_Witness ==
    /\ FallbackRaised
    /\ retry_attempts = 0
    /\ req.method = GET
    /\ NothingDone
    /\ ret = Raise(RuntimeError)
    /\ stack = <<>>

====
